---- MODULE Spec2Model ----
(***************************************************************************)
(* Model of kavak-domain-python: the search filter compiler                *)
(* (BaseService.__base_search), the query/search executor of BaseService   *)
(* and the update bookkeeping of UpdatableModel.                           *)
(*                                                                         *)
(* Python values are represented as follows.                               *)
(*   dict            a function whose domain is the set of keys            *)
(*   dict argument   [given |-> BOOLEAN, items |-> sequence of             *)
(*                   [k |-> key, v |-> value] in insertion order];         *)
(*                   given = FALSE is None                                 *)
(*   list            a sequence                                            *)
(***************************************************************************)
EXTENDS Integers, Sequences, FiniteSets, TLC

VARIABLES
    call,          \* arguments of the current __base_search call
    search_step,   \* the dict __base_search returned
    compiled,      \* TRUE once __base_search has returned for `call`
    db,            \* the documents of the service's collection
    op,            \* the service operation in progress, with its arguments
    requests,      \* the repository calls that operation has issued, in order
    result,        \* what the operation returned or raised
    service,       \* the service object: its repository and collection name
    record,        \* the field values of the live model instance
    clock,         \* the wall clock, in milliseconds
    mop,           \* the last operation on the model instance
    born           \* updated_at and the clock reading at construction

vars == <<call, search_step, compiled, db, op, requests, result, service,
          record, clock, mop, born>>

compileVars == <<call, search_step, compiled>>
serviceVars == <<db, op, requests, result, service>>
modelVars == <<record, clock, mop, born>>

----------------------------------------------------------------------------
(* Bounds *)

\* largest number of (category, field) entries in one filter specification
MaxEntries == 3

\* largest number of entries in the filters of a service-level search
MaxSvcEntries == 1

\* largest number of documents in the collection
MaxDocs == 2

\* largest page number and largest page size (limit) a caller asks for
MaxPage == 3
MaxLimit == 2

\* the last millisecond the clock reaches
MaxClock == 3

\* number of record ids in use
MaxIds == 2

\* largest length an array of a stored record grows to
MaxArray == 1

----------------------------------------------------------------------------
(* Python values *)

EmptyDict == <<>>

\* d.update({k: v})
DictUpdate(d, k, v) == (k :> v) @@ d

\* the argument None, the argument {} and a dict argument with items
NoneArg == [given |-> FALSE, items |-> <<>>]
DictArg(items) == [given |-> TRUE, items |-> items]

\* Python truthiness of an optional dict or set argument: None and the
\* empty container are falsy.
Truthy(arg) == arg.given /\ Len(arg.items) > 0

----------------------------------------------------------------------------
(* BaseService.__base_search *)

TextLeaf(k, v) == [text |-> [query |-> v, path |-> k]]

AutocompleteLeaf(k, v) == [autocomplete |-> [query |-> v, path |-> k]]

EqualsLeaf(k, v) == [equals |-> [value |-> v, path |-> k]]

\* {"path": k, **v}: the bounds of v are spread after "path"
RangeLeaf(k, v) == [range |-> v @@ ("path" :> k)]

WildcardLeaf(k) ==
    [wildcard |-> [query |-> "*", path |-> k, allowAnalyzedField |-> TRUE]]

\* for k, v in items: bucket.append(leaf(k, v))
RECURSIVE AppendLeaves(_, _, _)
AppendLeaves(bucket, items, kind) ==
    IF items = <<>> THEN bucket
    ELSE LET e == Head(items)
             leaf == CASE kind = "text" -> TextLeaf(e.k, e.v)
                       [] kind = "autocomplete" -> AutocompleteLeaf(e.k, e.v)
                       [] kind = "equals" -> EqualsLeaf(e.k, e.v)
                       [] kind = "range" -> RangeLeaf(e.k, e.v)
                       [] kind = "wildcard" -> WildcardLeaf(e.k)
         IN AppendLeaves(Append(bucket, leaf), Tail(items), kind)

\* if arg: for k, v in arg.items(): compound[bucket].append(leaf)
AddLeaves(compound, arg, bucket, kind) ==
    IF Truthy(arg)
    THEN [compound EXCEPT ![bucket] = AppendLeaves(@, arg.items, kind)]
    ELSE compound

\* mutant: the filter bucket is allocated unconditionally
AllocateFilterAlways(compound, c) == DictUpdate(compound, "filter", <<>>)

\* if text_filters or equal_filters or range_filters or not_null_filters
AllocateFilter(compound, c) ==
    IF \/ Truthy(c.text_filters) \/ Truthy(c.equal_filters)
       \/ Truthy(c.range_filters) \/ Truthy(c.not_null_filters)
    THEN DictUpdate(compound, "filter", <<>>)
    ELSE compound

\* if not_text_filters or not_equal_filters or not_autocomplete_filters
AllocateMustNot(compound, c) ==
    IF \/ Truthy(c.not_text_filters) \/ Truthy(c.not_equal_filters)
       \/ Truthy(c.not_autocomplete_filters)
    THEN DictUpdate(compound, "mustNot", <<>>)
    ELSE compound

\* mutant: autocomplete leaves are required (filter bucket), not optional
AddAutocompleteAsFilter(compound, c) ==
    IF Truthy(c.autocomplete_filters)
    THEN LET alloc == DictUpdate(compound, "filter",
                         IF "filter" \in DOMAIN compound
                         THEN compound["filter"] ELSE <<>>)
         IN [alloc EXCEPT !["filter"] =
                 AppendLeaves(@, c.autocomplete_filters.items, "autocomplete")]
    ELSE compound

\* if autocomplete_filters: allocate should and minimumShouldMatch, then
\* one autocomplete leaf per item
AddAutocomplete(compound, c) ==
    IF Truthy(c.autocomplete_filters)
    THEN LET alloc == DictUpdate(DictUpdate(compound, "should", <<>>),
                                 "minimumShouldMatch", 1)
         IN [alloc EXCEPT !["should"] =
                 AppendLeaves(@, c.autocomplete_filters.items, "autocomplete")]
    ELSE compound

\* mutant: the sort is attached inside the compound clause
AttachSortInCompound(step, c) ==
    IF Truthy(c.sort)
    THEN [step EXCEPT !["compound"] = DictUpdate(@, "sort", c.sort.items)]
    ELSE step

\* if sort: search_step.update({"sort": sort})
AttachSort(step, c) ==
    IF Truthy(c.sort) THEN DictUpdate(step, "sort", c.sort.items) ELSE step

base_search(c) ==
    LET s0 == AllocateMustNot(AllocateFilter(EmptyDict, c), c)
        s1 == AddLeaves(s0, c.text_filters, "filter", "text")
        s2 == AddAutocomplete(s1, c)
        s3 == AddLeaves(s2, c.equal_filters, "filter", "equals")
        s4 == AddLeaves(s3, c.range_filters, "filter", "range")
        s5 == AddLeaves(s4, c.not_text_filters, "mustNot", "text")
        s6 == AddLeaves(s5, c.not_autocomplete_filters, "mustNot", "autocomplete")
        s7 == AddLeaves(s6, c.not_equal_filters, "mustNot", "equals")
        s8 == AddLeaves(s7, c.not_null_filters, "filter", "wildcard")
    IN AttachSort(("index" :> c.index) @@ ("compound" :> s8), c)

----------------------------------------------------------------------------
(* Inputs of __base_search *)

Categories ==
    {"text", "autocomplete", "equal", "range",
     "not_text", "not_autocomplete", "not_equal", "not_null"}

\* the fields a filter of each category is drawn over
CategoryFields(cat) ==
    IF cat = "range" THEN {"price", "km"}
    ELSE IF cat = "not_null" THEN {"make", "price"}
    ELSE {"make", "model"}

Slots == {s \in Categories \X {"make", "model", "price", "km"} :
              s[2] \in CategoryFields(s[1])}

\* the two insertion orders of the keys
FieldOrders ==
    {<<"make", "model", "price", "km">>, <<"km", "price", "model", "make">>}

Indexes == {"vehicles", "default"}

\* the value a filter of category cat carries for field f
FilterValue(cat, f) ==
    IF cat = "range"
    THEN IF f = "price" THEN [gte |-> 10000, lte |-> 20000] ELSE [lt |-> 6000]
    ELSE IF cat = "not_null" THEN TRUE
    ELSE IF f = "make" THEN "Toyota" ELSE "Corolla"

RECURSIVE ItemsOf(_, _, _)
ItemsOf(S, cat, order) ==
    IF order = <<>> THEN <<>>
    ELSE IF <<cat, Head(order)>> \in S
         THEN <<[k |-> Head(order), v |-> FilterValue(cat, Head(order))]>>
                  \o ItemsOf(S, cat, Tail(order))
         ELSE ItemsOf(S, cat, Tail(order))

\* the argument of category cat: its items when S names some, otherwise
\* None (absent) or the empty container
FilterArg(S, cat, order, absent) ==
    IF \E s \in S : s[1] = cat THEN DictArg(ItemsOf(S, cat, order))
    ELSE IF absent THEN NoneArg ELSE DictArg(<<>>)

SortArgs == {NoneArg, DictArg(<<>>), DictArg(<<[k |-> "price", v |-> 1]>>)}

MakeCall(index, S, order, absent, sort) ==
    [index |-> index,
     text_filters |-> FilterArg(S, "text", order, absent),
     autocomplete_filters |-> FilterArg(S, "autocomplete", order, absent),
     equal_filters |-> FilterArg(S, "equal", order, absent),
     range_filters |-> FilterArg(S, "range", order, absent),
     not_text_filters |-> FilterArg(S, "not_text", order, absent),
     not_autocomplete_filters |-> FilterArg(S, "not_autocomplete", order, absent),
     not_equal_filters |-> FilterArg(S, "not_equal", order, absent),
     not_null_filters |-> FilterArg(S, "not_null", order, absent),
     sort |-> sort]

SlotSets(n) == {S \in SUBSET Slots : Cardinality(S) <= n}

----------------------------------------------------------------------------
(* UpdatableModel and VehiclesModel.  A Python value is [t, v]: the int v, *)
(* the str of the digits of v ("numstr"), the non-numeric str number v     *)
(* ("text") or None.                                                       *)

IntVal(n) == [t |-> "int", v |-> n]
NumStr(n) == [t |-> "numstr", v |-> n]
Text(n) == [t |-> "text", v |-> n]
NoneVal == [t |-> "none", v |-> 0]

\* the str "1.0.0"
Version100 == Text(100)

\* the fields the model declares
ModelFields == {"updated_at", "version", "km", "make", "version_vehicle"}

RequiredFields == {"km", "make"}

\* the default of a field that has one
FieldDefault(f) == IF f = "version" THEN Version100 ELSE NoneVal

\* whether pydantic accepts val for field f: an int field takes an int or a
\* str of digits, PositiveInt an int field value above 0, a str field a str,
\* Optional[str] also None, Literal["1.0.0"] that str only
FieldValid(f, val) ==
    CASE f = "updated_at" -> val.t \in {"int", "numstr"} /\ val.v > 0
      [] f = "km" -> val.t \in {"int", "numstr"}
      [] f = "make" -> val.t \in {"numstr", "text"}
      [] f = "version_vehicle" -> val.t \in {"numstr", "text", "none"}
      [] f = "version" -> val = Version100

\* the value validation stores: a str of digits given for an int field
\* becomes the int
FieldCoerce(f, val) ==
    IF f \in {"updated_at", "km"} /\ val.t = "numstr" THEN IntVal(val.v)
    ELSE val

\* round(time() * 1000)
TimeMs(t) == t

\* mutant: a missing updated_at is always the current time
SetUpdatedAtIgnoresCreatedAt(data, now) ==
    IF "updated_at" \in DOMAIN data THEN data
    ELSE ("updated_at" :> IntVal(TimeMs(now))) @@ data

\* _set_updated_at_as_created_at: data["updated_at"] = data.get("updated_at",
\* data.get("created_at", now))
set_updated_at_as_created_at(data, now) ==
    IF "updated_at" \in DOMAIN data THEN data
    ELSE ("updated_at" :> (IF "created_at" \in DOMAIN data
                           THEN data["created_at"] ELSE IntVal(TimeMs(now))))
             @@ data

\* model_validate(data): the before-validator, then the field validation;
\* keys that are no field are ignored
model_validate(data, now) ==
    LET d == set_updated_at_as_created_at(data, now)
        given == DOMAIN d \cap ModelFields
    IN IF \/ \E f \in RequiredFields : f \notin given
          \/ \E f \in given : ~FieldValid(f, d[f])
       THEN [raised |-> TRUE, model |-> <<>>, model_fields_set |-> {}]
       ELSE [raised |-> FALSE,
             model |-> [f \in ModelFields |->
                           IF f \in given THEN FieldCoerce(f, d[f])
                           ELSE FieldDefault(f)],
             model_fields_set |-> given]

\* mutant: the current values override the delta
MergedInputKeepsCurrent(rec, data, now) ==
    ("updated_at" :> IntVal(TimeMs(now))) @@ rec @@ data

\* mutant: an updated_at of the delta overrides the stamp
MergedInputDeltaStamp(rec, data, now) ==
    data @@ ("updated_at" :> IntVal(TimeMs(now))) @@ rec

\* {**self.model_dump(), **data, "updated_at": round(time() * 1000)}
MergedInput(rec, data, now) ==
    ("updated_at" :> IntVal(TimeMs(now))) @@ data @@ rec

\* mutant: only the keys of the delta are written back
WriteBackDeltaOnly(rec, validated, data) ==
    [f \in DOMAIN rec |->
        IF f \in validated.model_fields_set \cap DOMAIN data
        THEN validated.model[f] ELSE rec[f]]

\* for k in updated_model.model_fields_set: setattr(self, k, ...)
WriteBack(rec, validated, data) ==
    [f \in DOMAIN rec |->
        IF f \in validated.model_fields_set THEN validated.model[f]
        ELSE rec[f]]

\* mutant: the keys of the delta are set on the record before the merged
\* values are validated
UpdateWritesBeforeValidation(rec, data, now) ==
    LET validated == model_validate(MergedInput(rec, data, now), now)
        written == [f \in DOMAIN rec |->
                       IF f \in DOMAIN data THEN data[f] ELSE rec[f]]
    IN IF validated.raised THEN [raised |-> TRUE, record |-> written]
       ELSE [raised |-> FALSE, record |-> WriteBack(rec, validated, data)]

\* UpdatableModel.update: validation raises before anything is written back
update(rec, data, now) ==
    LET validated == model_validate(MergedInput(rec, data, now), now)
    IN IF validated.raised THEN [raised |-> TRUE, record |-> rec]
       ELSE [raised |-> FALSE, record |-> WriteBack(rec, validated, data)]

----------------------------------------------------------------------------
(* The repository collaborator: a document store with a query builder and *)
(* an aggregation interface.  A collection is a sequence of documents in  *)
(* natural order; a document is a function from its non-null fields.      *)

\* value of field f for sorting: a missing field sorts lowest
SortKey(doc, f) == IF f \in DOMAIN doc THEN doc[f] ELSE -1

\* stable insertion of doc into a sequence sorted on field f, direction dir
RECURSIVE InsertSorted(_, _, _, _)
InsertSorted(sorted, doc, f, dir) ==
    IF sorted = <<>> THEN <<doc>>
    ELSE IF dir * SortKey(Head(sorted), f) <= dir * SortKey(doc, f)
         THEN <<Head(sorted)>> \o InsertSorted(Tail(sorted), doc, f, dir)
         ELSE <<doc>> \o sorted

RECURSIVE SortOn(_, _, _)
SortOn(docs, f, dir) ==
    IF docs = <<>> THEN <<>>
    ELSE InsertSorted(SortOn(SubSeq(docs, 1, Len(docs) - 1), f, dir),
                      docs[Len(docs)], f, dir)

\* sort=None or an empty sort keeps the natural order
SortDocs(docs, sort) ==
    IF Truthy(sort) THEN SortOn(docs, sort.items[1].k, sort.items[1].v)
    ELSE docs

\* the window [skip, skip + limit) of a sequence
Window(docs, skip, limit) ==
    SubSeq(docs, skip + 1, IF skip + limit < Len(docs) THEN skip + limit
                           ELSE Len(docs))

\* a (field, operator, value) condition of the query builder
CondHolds(doc, cond) ==
    /\ cond.field \in DOMAIN doc
    /\ CASE cond.op = "==" -> doc[cond.field] = cond.value
         [] cond.op = ">=" -> doc[cond.field] >= cond.value
         [] cond.op = "<" -> doc[cond.field] < cond.value

\* and_search conditions must all hold, or_search conditions at least one
QueryMatches(doc, query) ==
    /\ \A i \in 1..Len(query.and_conditions) :
           CondHolds(doc, query.and_conditions[i])
    /\ \/ query.or_conditions = <<>>
       \/ \E i \in 1..Len(query.or_conditions) :
              CondHolds(doc, query.or_conditions[i])

QueryMatchSet(docs, query) == SelectSeq(docs, LAMBDA d : QueryMatches(d, query))

\* projection=None keeps the document, a projection keeps the named fields
Project(doc, projection) ==
    IF Truthy(projection)
    THEN [f \in {g \in DOMAIN doc :
                    \E i \in 1..Len(projection.items) : projection.items[i] = g}
             |-> doc[f]]
    ELSE doc

ProjectAll(docs, projection) ==
    [i \in 1..Len(docs) |-> Project(docs[i], projection)]

\* query.count()
RepoCount(docs, query) == Len(QueryMatchSet(docs, query))

\* query.paginate(page, limit, sort=..., projection=...)
RepoPaginate(docs, query, page, limit, sort, projection) ==
    ProjectAll(Window(SortDocs(QueryMatchSet(docs, query), sort),
                      limit * (page - 1), limit),
               projection)

\* query.get_all(sort=..., projection=..., [limit=...])
RepoGetAll(docs, query, kwargs) ==
    LET all == SortDocs(QueryMatchSet(docs, query), kwargs["sort"])
    IN ProjectAll(IF "limit" \in DOMAIN kwargs
                  THEN Window(all, 0, kwargs["limit"]) ELSE all,
                  kwargs["projection"])

\* one leaf clause of a compound search against one document
LeafMatches(doc, leaf) ==
    IF "text" \in DOMAIN leaf
    THEN /\ leaf.text.path \in DOMAIN doc
         /\ doc[leaf.text.path] = leaf.text.query
    ELSE IF "autocomplete" \in DOMAIN leaf
    THEN /\ leaf.autocomplete.path \in DOMAIN doc
         /\ doc[leaf.autocomplete.path] = leaf.autocomplete.query
    ELSE IF "equals" \in DOMAIN leaf
    THEN /\ leaf.equals.path \in DOMAIN doc
         /\ doc[leaf.equals.path] = leaf.equals.value
    ELSE IF "range" \in DOMAIN leaf
    THEN LET r == leaf.range
         IN /\ r["path"] \in DOMAIN doc
            /\ "gte" \in DOMAIN r => doc[r["path"]] >= r["gte"]
            /\ "lte" \in DOMAIN r => doc[r["path"]] <= r["lte"]
            /\ "lt" \in DOMAIN r => doc[r["path"]] < r["lt"]
    ELSE leaf.wildcard.path \in DOMAIN doc

\* compound: every filter clause, no mustNot clause, and at least
\* minimumShouldMatch of the should clauses
CompoundMatches(doc, compound) ==
    /\ "filter" \in DOMAIN compound =>
           \A i \in 1..Len(compound["filter"]) :
               LeafMatches(doc, compound["filter"][i])
    /\ "mustNot" \in DOMAIN compound =>
           \A i \in 1..Len(compound["mustNot"]) :
               ~LeafMatches(doc, compound["mustNot"][i])
    /\ "should" \in DOMAIN compound =>
           Cardinality({i \in 1..Len(compound["should"]) :
                            LeafMatches(doc, compound["should"][i])})
               >= compound["minimumShouldMatch"]

\* the documents a $search stage yields, in the order of its sort
SearchMatchSet(docs, step) ==
    LET hits == SelectSeq(docs, LAMBDA d : CompoundMatches(d, step["compound"]))
    IN IF "sort" \in DOMAIN step
       THEN SortOn(hits, step["sort"][1].k, step["sort"][1].v)
       ELSE hits

\* a $search stage is rejected when its compound clause has no clause
SearchRejected(pipeline) ==
    \E i \in 1..Len(pipeline) :
        /\ "$search" \in DOMAIN pipeline[i]
        /\ DOMAIN pipeline[i]["$search"]["compound"] = {}

\* $addFields {name: {$arrayElemAt: [<array>.<field>, index]}}: the field is
\* added when the element exists
AddFields(doc, spec) ==
    LET e == spec["count"]["$arrayElemAt"]
        array == doc[e.array]
    IN IF e.index + 1 <= Len(array)
       THEN ("count" :> array[e.index + 1][e.field]) @@ doc
       ELSE doc

\* the stages of a pipeline applied in order to a stream of documents
RECURSIVE RunStages(_, _)
RunStages(docs, pipeline) ==
    IF pipeline = <<>> THEN docs
    ELSE LET stage == Head(pipeline)
             out ==
                 IF "$search" \in DOMAIN stage
                 THEN SearchMatchSet(docs, stage["$search"])
                 ELSE IF "$skip" \in DOMAIN stage
                 THEN SubSeq(docs, stage["$skip"] + 1, Len(docs))
                 ELSE IF "$limit" \in DOMAIN stage
                 THEN Window(docs, 0, stage["$limit"])
                 ELSE IF "$count" \in DOMAIN stage
                 THEN IF docs = <<>> THEN <<>>
                      ELSE <<(stage["$count"] :> Len(docs))>>
                 ELSE IF "$facet" \in DOMAIN stage
                 THEN <<[b \in DOMAIN stage["$facet"] |->
                            RunStages(docs, stage["$facet"][b])]>>
                 ELSE [i \in 1..Len(docs) |->
                          AddFields(docs[i], stage["$addFields"])]
         IN RunStages(out, Tail(pipeline))

\* collection.aggregate(pipeline): an error, or the cursor's documents
Aggregate(docs, pipeline) ==
    IF SearchRejected(pipeline)
    THEN [raised |-> "RepositoryError", docs |-> <<>>]
    ELSE [raised |-> "", docs |-> RunStages(docs, pipeline)]

----------------------------------------------------------------------------
(* The repository collaborator: records by id.  A stored record is the    *)
(* dict the service wrote: a function from the field names, "id" among    *)
(* them, to Python values [t, v].                                          *)

\* position of the first record with the given id, 0 when there is none
IndexOfId(docs, id) ==
    LET found == {i \in 1..Len(docs) : docs[i]["id"] = id}
    IN IF found = {} THEN 0 ELSE CHOOSE i \in found : \A j \in found : i <= j

\* get(collection, id): the record, or nothing
RepoGet(docs, id) ==
    IF IndexOfId(docs, id) = 0 THEN <<>> ELSE <<docs[IndexOfId(docs, id)]>>

\* create(collection, record): the record is added; an id already stored is
\* refused
RepoCreate(docs, rec) ==
    IF IndexOfId(docs, rec["id"]) # 0
    THEN [raised |-> "RepositoryError", docs |-> docs]
    ELSE [raised |-> "", docs |-> Append(docs, rec)]

\* update(collection, id, record): the record's keys are merged into the
\* stored record; the answer is the number of records matched
RepoUpdate(docs, id, rec) ==
    LET i == IndexOfId(docs, id)
    IN IF i = 0 THEN [matched |-> 0, docs |-> docs]
       ELSE [matched |-> 1, docs |-> [docs EXCEPT ![i] = rec @@ docs[i]]]

\* set(collection, id, record): the stored record is replaced
RepoSet(docs, id, rec) ==
    LET i == IndexOfId(docs, id)
    IN IF i = 0 THEN [matched |-> 0, docs |-> docs]
       ELSE [matched |-> 1, docs |-> [docs EXCEPT ![i] = rec]]

\* the array under key of a record; a record without the key has none
ArrayOf(doc, key) == IF key \in DOMAIN doc THEN doc[key] ELSE <<>>

\* the values to push: with avoid_duplication those the array does not hold
NewValues(array, values, avoid_duplication) ==
    IF avoid_duplication
    THEN SelectSeq(values,
                   LAMBDA x : \A i \in 1..Len(array) : array[i] # x)
    ELSE values

\* update_many(collection, conditions, data): data is merged into every
\* record that meets the conditions
RepoUpdateMany(docs, conditions, data) ==
    LET query == [and_conditions |-> conditions, or_conditions |-> <<>>]
    IN [matched |-> Len(QueryMatchSet(docs, query)),
        docs |-> [i \in 1..Len(docs) |->
                     IF QueryMatches(docs[i], query) THEN data @@ docs[i]
                     ELSE docs[i]]]

\* push_array_many(collection, id, key, values, document_data,
\* avoid_duplication): the values are appended to the array, document_data
\* is merged into the record
RepoPushArrayMany(docs, id, key, values, document_data, avoid_duplication) ==
    LET i == IndexOfId(docs, id)
        array == ArrayOf(docs[i], key)
        pushed == array \o NewValues(array, values, avoid_duplication)
    IN IF i = 0 THEN [matched |-> 0, docs |-> docs]
       ELSE [matched |-> 1,
             docs |-> [docs EXCEPT
                          ![i] = (key :> pushed) @@ document_data @@ docs[i]]]

\* push_array(collection, id, key, value)
RepoPushArray(docs, id, key, value) ==
    RepoPushArrayMany(docs, id, key, <<value>>, <<>>, FALSE)

\* pull_array(collection, id, key, value, document_data): every occurrence
\* of value leaves the array
RepoPullArray(docs, id, key, value, document_data) ==
    LET i == IndexOfId(docs, id)
        pulled == SelectSeq(ArrayOf(docs[i], key), LAMBDA x : x # value)
    IN IF i = 0 THEN [matched |-> 0, docs |-> docs]
       ELSE [matched |-> 1,
             docs |-> [docs EXCEPT
                          ![i] = (key :> pulled) @@ document_data @@ docs[i]]]

\* query.get_all_without_limit(sort=..., projection=...)
RepoGetAllWithoutLimit(docs, query, sort, projection) ==
    ProjectAll(SortDocs(QueryMatchSet(docs, query), sort), projection)

\* query.get_one_or_none(sort=..., projection=...): the first match, if any
RepoGetOneOrNone(docs, query, sort, projection) ==
    Window(RepoGetAllWithoutLimit(docs, query, sort, projection), 0, 1)

----------------------------------------------------------------------------
(* BaseService: construction *)

\* VehiclesModel as a class: its __collection_name__
VehiclesModel == [name |-> "VehiclesModel", collection_name |-> "vehicles"]

\* the service classes: AppVersionService declares its __entity_model__, a
\* subclass of BaseService may declare none; entity_model is the sequence of
\* the declared models
AppVersionService ==
    [name |-> "AppVersionService", entity_model |-> <<VehiclesModel>>]

UndeclaredService == [name |-> "UndeclaredService", entity_model |-> <<>>]

\* no service object
NoService ==
    [constructed |-> FALSE, repository |-> "", entity_model_collection |-> ""]

\* mutant: a class without entity model passes
ValidateEntityModelAlways(cls) == TRUE

\* _validate_entity_model: not getattr(self, "__entity_model__", None)
\* raises TypeError
validate_entity_model(cls) == cls.entity_model # <<>>

\* _set_entity_model_collection: __entity_model__.__collection_name__ (an
\* AttributeError, here no name, for a class that has no entity model)
set_entity_model_collection(cls) ==
    IF cls.entity_model = <<>> THEN "" ELSE cls.entity_model[1].collection_name

\* cls(repository): __repository__ is bound, then BaseService.__init__ runs;
\* when it raises the caller has no service object
service_init(cls, repository) ==
    IF ~validate_entity_model(cls)
    THEN [raised |-> "TypeError", service |-> NoService]
    ELSE [raised |-> "",
          service |-> [constructed |-> TRUE, repository |-> repository,
                       entity_model_collection |->
                           set_entity_model_collection(cls)]]

----------------------------------------------------------------------------
(* BaseService: the query and search executor *)

\* VehiclesModel.__collection_name__, copied by _set_entity_model_collection
entity_model_collection == "vehicles"

\* __base_query: repository.query(collection), then and_search / or_search
\* for the condition lists that are truthy
base_query(and_conditions, or_conditions) ==
    [collection |-> entity_model_collection,
     and_conditions |-> IF Truthy(and_conditions) THEN and_conditions.items
                        ELSE <<>>,
     or_conditions |-> IF Truthy(or_conditions) THEN or_conditions.items
                       ELSE <<>>]

QueryRequest == [kind |-> "query", collection |-> entity_model_collection]

CountRequest(query) == [kind |-> "count", query |-> query]

PaginateRequest(query, page, limit, sort, projection) ==
    [kind |-> "paginate", query |-> query, page |-> page, limit |-> limit,
     sort |-> sort, projection |-> projection]

GetAllRequest(query, kwargs) ==
    [kind |-> "get_all", query |-> query, kwargs |-> kwargs]

GetCollectionRequest ==
    [kind |-> "get_collection", collection |-> entity_model_collection]

AggregateRequest(pipeline) ==
    [kind |-> "aggregate", collection |-> entity_model_collection,
     pipeline |-> pipeline]

Returned(value) == [raised |-> "", value |-> value]
Raised(error) == [raised |-> error, value |-> <<>>]

\* kwargs = {"sort": sort, "projection": projection}; if limit: add it
GetAllKwargs(sort, projection, limit) ==
    LET kwargs == ("sort" :> sort) @@ ("projection" :> projection)
    IN IF limit # 0 THEN DictUpdate(kwargs, "limit", limit) ELSE kwargs

\* _query_with_count: count, then get_all on the same query
query_with_count(docs, and_conditions, or_conditions, sort, projection, limit) ==
    LET query == base_query(and_conditions, or_conditions)
        kwargs == GetAllKwargs(sort, projection, limit)
    IN [requests |-> <<QueryRequest, CountRequest(query),
                       GetAllRequest(query, kwargs)>>,
        result |-> Returned(<<RepoCount(docs, query),
                              RepoGetAll(docs, query, kwargs)>>)]

\* _query_paginated: count, then paginate on the same query
query_paginated(docs, page, limit, and_conditions, or_conditions, sort, projection) ==
    LET query == base_query(and_conditions, or_conditions)
    IN [requests |-> <<QueryRequest, CountRequest(query),
                       PaginateRequest(query, page, limit, sort, projection)>>,
        result |-> Returned(<<RepoCount(docs, query),
                              RepoPaginate(docs, query, page, limit, sort,
                                           projection)>>)]

\* mutant: pages are taken as 0-indexed
SearchPipelineZeroIndexed(step, page, limit) ==
    <<("$search" :> step),
      ("$facet" :>
          [results |-> <<("$skip" :> limit * page), ("$limit" :> limit)>>,
           totalCount |-> <<("$count" :> "count")>>]),
      ("$addFields" :>
          ("count" :> ("$arrayElemAt" :>
              [array |-> "totalCount", field |-> "count", index |-> 0])))>>

\* the pipeline of _search_paginated
SearchPipeline(step, page, limit) ==
    <<("$search" :> step),
      ("$facet" :>
          [results |-> <<("$skip" :> limit * (page - 1)), ("$limit" :> limit)>>,
           totalCount |-> <<("$count" :> "count")>>]),
      ("$addFields" :>
          ("count" :> ("$arrayElemAt" :>
              [array |-> "totalCount", field |-> "count", index |-> 0])))>>

\* mutant: the count is taken from the returned page
ReadFacetCountsPage(data) == <<Len(data["results"]), data["results"]>>

\* data = aggregation.next(); data.get("count", 0), data.get("results")
ReadFacet(data) ==
    <<IF "count" \in DOMAIN data THEN data["count"] ELSE 0, data["results"]>>

\* mutant: the fallback returns the first page whatever page is asked for
SearchFallbackFirstPage(docs, page, limit, sort) ==
    LET query == [collection |-> entity_model_collection,
                  and_conditions |-> <<>>, or_conditions |-> <<>>]
    IN [requests |-> <<QueryRequest, CountRequest(query),
                       PaginateRequest(query, 1, limit, sort, NoneArg)>>,
        result |-> Returned(<<RepoCount(docs, query),
                              RepoPaginate(docs, query, 1, limit, sort,
                                           NoneArg)>>)]

\* the else branch of _search_paginated: a plain query of the collection
SearchFallback(docs, page, limit, sort) ==
    LET query == [collection |-> entity_model_collection,
                  and_conditions |-> <<>>, or_conditions |-> <<>>]
    IN [requests |-> <<QueryRequest, CountRequest(query),
                       PaginateRequest(query, page, limit, sort, NoneArg)>>,
        result |-> Returned(<<RepoCount(docs, query),
                              RepoPaginate(docs, query, page, limit, sort,
                                           NoneArg)>>)]

\* mutant: the compound clause is never taken as non-empty
CompoundNeverTruthy(step) == FALSE

\* if search_step.get("compound")
CompoundTruthy(step) == DOMAIN step["compound"] # {}

\* _search_paginated
search_paginated(docs, c, page, limit) ==
    LET step == base_search(c)
    IN IF CompoundTruthy(step)
       THEN LET pipeline == SearchPipeline(step, page, limit)
                cursor == Aggregate(docs, pipeline)
            IN [requests |-> <<GetCollectionRequest, AggregateRequest(pipeline)>>,
                result |-> IF cursor.raised # "" THEN Raised(cursor.raised)
                           ELSE Returned(ReadFacet(cursor.docs[1]))]
       ELSE SearchFallback(docs, page, limit, c.sort)

\* what the repository answers to one request on the collection as it is
\* when the request arrives
AnswerOf(request, docs) ==
    CASE request.kind = "count" -> RepoCount(docs, request.query)
      [] request.kind = "paginate" ->
             RepoPaginate(docs, request.query, request.page, request.limit,
                          request.sort, request.projection)
      [] request.kind = "aggregate" -> Aggregate(docs, request.pipeline)
      [] OTHER -> <<>>

\* what _search_paginated returns from the answers to its requests: the
\* facet document of the one aggregation, or the count and the page
search_paginated_return(c, answers) ==
    IF CompoundTruthy(base_search(c))
    THEN IF answers[2].raised # "" THEN Raised(answers[2].raised)
         ELSE Returned(ReadFacet(answers[2].docs[1]))
    ELSE Returned(<<answers[2], answers[3]>>)

\* _search_unlimited: the $search stage alone, whatever the compound clause
search_unlimited(docs, c) ==
    LET pipeline == <<("$search" :> base_search(c))>>
        cursor == Aggregate(docs, pipeline)
    IN [requests |-> <<GetCollectionRequest, AggregateRequest(pipeline)>>,
        result |-> IF cursor.raised # "" THEN Raised(cursor.raised)
                   ELSE Returned(cursor.docs)]

----------------------------------------------------------------------------
(* BaseService: the record operations.  An operation returns the requests *)
(* it issued, what it returned or raised, and the collection it leaves.   *)
(* Optional[record] is a sequence: <<>> is None, <<r>> the record r.       *)

\* the id of a hydrated record: the id of the data, otherwise a generated one
ModelId(data, fresh) == IF "id" \in DOMAIN data THEN data["id"] ELSE fresh

\* _instantiate_entity_model: __entity_model__.model_validate(data)
instantiate_entity_model(data, now, fresh) ==
    LET validated == model_validate(data, now)
    IN IF validated.raised THEN validated
       ELSE [validated EXCEPT
                !.model = ("id" :> ModelId(data, fresh)) @@ validated.model,
                !.model_fields_set =
                    validated.model_fields_set \cup (DOMAIN data \cap {"id"})]

\* the record a caller holds: the field values and the set of given fields
Instance(validated) ==
    [model |-> validated.model, model_fields_set |-> validated.model_fields_set]

\* model_dump(by_alias=True): the dict of every field, given or defaulted
model_dump(instance) == instance.model

\* mutant: a miss is hydrated like a hit
GetHydratesMiss(svc, docs, document_id, now) ==
    [requests |-> <<[kind |-> "get", collection |-> svc.entity_model_collection,
                    id |-> document_id]>>,
     result |-> Raised("ValidationError"),
     db |-> docs]

\* get: the repository's record hydrated, None when there is none
get(svc, docs, document_id, now) ==
    LET document_data == RepoGet(docs, document_id)
        validated == instantiate_entity_model(document_data[1], now,
                                              document_id)
    IN [requests |-> <<[kind |-> "get", collection |-> svc.entity_model_collection,
                    id |-> document_id]>>,
        result |-> IF document_data = <<>> THEN Returned(<<>>)
                   ELSE IF validated.raised THEN Raised("ValidationError")
                   ELSE Returned(<<Instance(validated)>>),
        db |-> docs]

\* mutant: the record is written as given, before it is hydrated
CreateWritesFirst(svc, docs, document_data, now, fresh) ==
    LET validated == instantiate_entity_model(document_data, now, fresh)
        written == ("id" :> ModelId(document_data, fresh)) @@ document_data
        ack == RepoCreate(docs, written)
    IN [requests |-> <<[kind |-> "create",
                     collection |-> svc.entity_model_collection,
                     record |-> written]>>,
        result |-> IF ack.raised # "" THEN Raised(ack.raised)
                   ELSE IF validated.raised THEN Raised("ValidationError")
                   ELSE Returned(<<Instance(validated)>>),
        db |-> ack.docs]

\* create: hydrate, write the serialized record, return the hydrated record
create(svc, docs, document_data, now, fresh) ==
    LET validated == instantiate_entity_model(document_data, now, fresh)
        ack == RepoCreate(docs, model_dump(Instance(validated)))
    IN IF validated.raised
       THEN [requests |-> <<>>, result |-> Raised("ValidationError"),
             db |-> docs]
       ELSE [requests |-> <<[kind |-> "create",
                          collection |-> svc.entity_model_collection,
                          record |-> model_dump(Instance(validated))]>>,
             result |-> IF ack.raised # "" THEN Raised(ack.raised)
                        ELSE Returned(<<Instance(validated)>>),
             db |-> ack.docs]

\* update: hydrate, write by id; None when the repository matched no record
service_update(svc, docs, document_data, now, fresh) ==
    LET validated == instantiate_entity_model(document_data, now, fresh)
        model_instance == Instance(validated)
        answer == RepoUpdate(docs, model_instance.model["id"],
                             model_dump(model_instance))
    IN IF validated.raised
       THEN [requests |-> <<>>, result |-> Raised("ValidationError"),
             db |-> docs]
       ELSE [requests |-> <<[kind |-> "update",
                          collection |-> svc.entity_model_collection,
                          id |-> model_instance.model["id"],
                          record |-> model_dump(model_instance)]>>,
             result |-> IF answer.matched # 0
                        THEN Returned(<<model_instance>>)
                        ELSE Returned(<<>>),
             db |-> answer.docs]

\* set: as update, with the repository's set
service_set(svc, docs, document_data, now, fresh) ==
    LET validated == instantiate_entity_model(document_data, now, fresh)
        model_instance == Instance(validated)
        answer == RepoSet(docs, model_instance.model["id"],
                          model_dump(model_instance))
    IN IF validated.raised
       THEN [requests |-> <<>>, result |-> Raised("ValidationError"),
             db |-> docs]
       ELSE [requests |-> <<[kind |-> "set",
                          collection |-> svc.entity_model_collection,
                          id |-> model_instance.model["id"],
                          record |-> model_dump(model_instance)]>>,
             result |-> IF answer.matched # 0
                        THEN Returned(<<model_instance>>)
                        ELSE Returned(<<>>),
             db |-> answer.docs]

\* _update_many: the repository's count of matched records
update_many(svc, docs, and_conditions, data) ==
    LET answer == RepoUpdateMany(docs, and_conditions, data)
    IN [requests |-> <<[kind |-> "update_many",
                     collection |-> svc.entity_model_collection,
                     and_conditions |-> and_conditions, data |-> data]>>,
        result |-> Returned(<<answer.matched>>),
        db |-> answer.docs]

\* _push_array
push_array(svc, docs, document_id, key, value) ==
    LET answer == RepoPushArray(docs, document_id, key, value)
    IN [requests |-> <<[kind |-> "push_array",
                     collection |-> svc.entity_model_collection,
                     id |-> document_id, key |-> key, value |-> value]>>,
        result |-> Returned(<<answer.matched>>),
        db |-> answer.docs]

\* _push_array_many
push_array_many(svc, docs, document_id, key, values, document_data, avoid_duplication) ==
    LET answer == RepoPushArrayMany(docs, document_id, key, values,
                                    document_data, avoid_duplication)
    IN [requests |-> <<[kind |-> "push_array_many",
                     collection |-> svc.entity_model_collection,
                     id |-> document_id, key |-> key, values |-> values,
                     document_data |-> document_data,
                     avoid_duplication |-> avoid_duplication]>>,
        result |-> Returned(<<answer.matched>>),
        db |-> answer.docs]

\* _pull_array
pull_array(svc, docs, document_id, key, value, document_data) ==
    LET answer == RepoPullArray(docs, document_id, key, value, document_data)
    IN [requests |-> <<[kind |-> "pull_array",
                     collection |-> svc.entity_model_collection,
                     id |-> document_id, key |-> key, value |-> value,
                     document_data |-> document_data]>>,
        result |-> Returned(<<answer.matched>>),
        db |-> answer.docs]

\* _query: get_all on the query
query_all(docs, and_conditions, or_conditions, sort, projection, limit) ==
    LET query == base_query(and_conditions, or_conditions)
        kwargs == GetAllKwargs(sort, projection, limit)
    IN [requests |-> <<QueryRequest, GetAllRequest(query, kwargs)>>,
        result |-> Returned(RepoGetAll(docs, query, kwargs))]

\* _query_one: get_one_or_none on the query
query_one(docs, and_conditions, or_conditions, sort, projection) ==
    LET query == base_query(and_conditions, or_conditions)
    IN [requests |-> <<QueryRequest, [kind |-> "get_one_or_none", query |-> query,
                        sort |-> sort, projection |-> projection]>>,
        result |-> Returned(RepoGetOneOrNone(docs, query, sort, projection))]

\* _query_unlimited: get_all_without_limit on the query
query_unlimited(docs, and_conditions, or_conditions, sort, projection) ==
    LET query == base_query(and_conditions, or_conditions)
    IN [requests |-> <<QueryRequest,
                       [kind |-> "get_all_without_limit", query |-> query,
                        sort |-> sort, projection |-> projection]>>,
        result |-> Returned(RepoGetAllWithoutLimit(docs, query, sort,
                                                   projection))]

\* mutant: the count is taken from the fetched list
QueryUnlimitedCountsFetched(docs, and_conditions, or_conditions, sort, projection) ==
    LET query == base_query(and_conditions, or_conditions)
        fetched == RepoGetAllWithoutLimit(docs, query, sort, projection)
    IN [requests |-> <<QueryRequest,
                       [kind |-> "get_all_without_limit", query |-> query,
                        sort |-> sort, projection |-> projection]>>,
        result |-> Returned(<<Len(fetched), fetched>>)]

\* _query_unlimited_with_count: count, then get_all_without_limit
query_unlimited_with_count(docs, and_conditions, or_conditions, sort, projection) ==
    LET query == base_query(and_conditions, or_conditions)
    IN [requests |-> <<QueryRequest, CountRequest(query),
                       [kind |-> "get_all_without_limit", query |-> query,
                        sort |-> sort, projection |-> projection]>>,
        result |-> Returned(<<RepoCount(docs, query),
                              RepoGetAllWithoutLimit(docs, query, sort,
                                                     projection)>>)]

\* an operation that reads only leaves the collection as it is
Reading(outcome, docs) ==
    [requests |-> outcome.requests, result |-> outcome.result, db |-> docs]

\* mutant: the failed request is issued again and the operation carries on
PropagateRetries(outcome, docs, fault, error) ==
    IF fault \in 1..Len(outcome.requests)
    THEN [requests |-> SubSeq(outcome.requests, 1, fault)
                           \o SubSeq(outcome.requests, fault,
                                     Len(outcome.requests)),
          result |-> outcome.result,
          db |-> outcome.db]
    ELSE outcome

\* no operation catches an exception: when its request number `fault` raises
\* error, the operation raises error there and issues nothing after it;
\* fault = 0 is the run in which no injected failure occurs
Propagate(outcome, docs, fault, error) ==
    IF fault \in 1..Len(outcome.requests)
    THEN [requests |-> SubSeq(outcome.requests, 1, fault),
          result |-> Raised(error),
          db |-> docs]
    ELSE outcome

----------------------------------------------------------------------------
(* Inputs of the service operations *)

\* the documents a collection may hold; the third has no price
DocKinds ==
    {[make |-> "Toyota", model |-> "Corolla", price |-> 15000, km |-> 5000],
     [make |-> "Honda", model |-> "Civic", price |-> 25000, km |-> 9000],
     [make |-> "Toyota", model |-> "Yaris", km |-> 7000]}

\* the collections of at most n documents; _id is the insertion position
Collections(n) ==
    UNION {{[i \in 1..len |-> ("_id" :> i) @@ kinds[i]] :
               kinds \in [1..len -> DocKinds]} : len \in 0..n}

SvcSorts == {NoneArg, DictArg(<<[k |-> "price", v |-> 1]>>)}

\* the filter arguments of a service-level search: unused ones are None
SvcCalls ==
    {MakeCall("vehicles", S, <<"make", "model", "price", "km">>, TRUE, sort) :
         S \in SlotSets(MaxSvcEntries), sort \in SvcSorts}

\* the and_conditions a caller passes, as a list of alternatives
AndConditions ==
    <<NoneArg, DictArg(<<[field |-> "make", op |-> "==", value |-> "Toyota"]>>),
      DictArg(<<[field |-> "price", op |-> ">=", value |-> 20000]>>)>>

OrConditions ==
    {NoneArg, DictArg(<<[field |-> "km", op |-> "<", value |-> 6000]>>)}

Projections == {NoneArg, DictArg(<<"make">>)}

Pages == 1..MaxPage
Limits == 1..MaxLimit

\* the dicts with at most one of the given values for key k
Maybe(k, values) == {<<>>} \cup {(k :> val) : val \in values}

\* the ids of records, as strs
RecordIds == {Text(10 + i) : i \in 1..MaxIds}

\* the data a caller passes to create, update and set: with or without id,
\* km an int or a str that is no number
DocumentData ==
    {a @@ b @@ c :
        a \in Maybe("id", RecordIds),
        b \in {("km" :> IntVal(5000)), ("km" :> Text(1))},
        c \in {("make" :> Text(1)), ("make" :> Text(2))}}

\* the ids of the stored records
StoredIds(docs) == {docs[i]["id"] : i \in 1..Len(docs)}

\* and_conditions over records: None, or one equality on make
RecordConditions ==
    {NoneArg,
     DictArg(<<[field |-> "make", op |-> "==", value |-> Text(1)]>>)}

\* the filter arguments of a search over records: all None, or one equality
\* on make
RecordCalls ==
    {MakeCall("vehicles", {}, <<>>, TRUE, NoneArg),
     [MakeCall("vehicles", {}, <<>>, TRUE, NoneArg) EXCEPT
         !.equal_filters = DictArg(<<[k |-> "make", v |-> Text(1)]>>)]}

\* the errors a repository request may raise
RepositoryErrors == {"ConnectionError", "TimeoutError"}

----------------------------------------------------------------------------
(* The state before any operation.  Each specification below runs one part *)
(* of the program and leaves the state of the other parts as it is here.   *)

\* no service operation is in progress
Idle == [name |-> "idle"]

NoRecord == <<>>

NoModelOp ==
    [name |-> "none", data |-> <<>>, now |-> 0, before |-> NoRecord,
     raised |-> FALSE]

InitIdleModel ==
    /\ record = NoRecord
    /\ clock = 1
    /\ mop = NoModelOp
    /\ born = [updated_at |-> 0, now |-> 0]

InitIdleService ==
    /\ db = <<>>
    /\ op = Idle
    /\ requests = <<>>
    /\ result = Returned(<<>>)
    /\ service = NoService

InitIdleCompile ==
    /\ call = MakeCall("vehicles", {}, <<>>, TRUE, NoneArg)
    /\ search_step = EmptyDict
    /\ compiled = FALSE

----------------------------------------------------------------------------
(* The filter compiler as a state machine: Init draws the arguments, *)
(* Compile applies __base_search to them.                             *)

InitCompile ==
    /\ \E index \in Indexes, S \in SlotSets(MaxEntries), order \in FieldOrders,
          absent \in BOOLEAN, sort \in SortArgs :
           call = MakeCall(index, S, order, absent, sort)
    /\ search_step = EmptyDict
    /\ compiled = FALSE
    /\ InitIdleService
    /\ InitIdleModel

Compile ==
    /\ ~compiled
    /\ search_step' = base_search(call)
    /\ compiled' = TRUE
    /\ UNCHANGED <<call, serviceVars, modelVars>>

NextCompile == Compile

SpecCompile == InitCompile /\ [][NextCompile]_vars

----------------------------------------------------------------------------
(* The service as a state machine: a caller invokes one operation on the *)
(* collection, the operation runs to its return, the caller takes the    *)
(* result.                                                               *)

InitService ==
    /\ db \in Collections(MaxDocs)
    /\ op = Idle
    /\ requests = <<>>
    /\ result = Returned(<<>>)
    /\ service = service_init(AppVersionService, "primary").service
    /\ InitIdleCompile
    /\ InitIdleModel

Finish(name, args, outcome) ==
    /\ op' = [name |-> name, args |-> args]
    /\ requests' = outcome.requests
    /\ result' = outcome.result
    /\ UNCHANGED <<db, service, compileVars, modelVars>>

SearchPaginated ==
    /\ op = Idle
    /\ \E c \in SvcCalls, page \in Pages, limit \in Limits :
           Finish("_search_paginated",
                  [call |-> c, page |-> page, limit |-> limit],
                  search_paginated(db, c, page, limit))

SearchUnlimited ==
    /\ op = Idle
    /\ \E c \in SvcCalls :
           Finish("_search_unlimited", [call |-> c], search_unlimited(db, c))

QueryPaginated ==
    /\ op = Idle
    /\ \E page \in Pages, limit \in Limits, a \in 1..Len(AndConditions),
          o \in OrConditions, sort \in SvcSorts, projection \in Projections :
           Finish("_query_paginated",
                  [page |-> page, limit |-> limit,
                   and_conditions |-> AndConditions[a], or_conditions |-> o,
                   sort |-> sort, projection |-> projection],
                  query_paginated(db, page, limit, AndConditions[a], o, sort,
                                  projection))

\* limit = 0 stands for the falsy limits None and 0
QueryWithCount ==
    /\ op = Idle
    /\ \E limit \in 0..MaxLimit, a \in 1..Len(AndConditions),
          o \in OrConditions, sort \in SvcSorts, projection \in Projections :
           Finish("_query_with_count",
                  [limit |-> limit,
                   and_conditions |-> AndConditions[a], or_conditions |-> o,
                   sort |-> sort, projection |-> projection],
                  query_with_count(db, AndConditions[a], o, sort, projection,
                                   limit))

\* the caller takes the result; the service keeps nothing of the call
Return ==
    /\ op # Idle
    /\ op' = Idle
    /\ requests' = <<>>
    /\ result' = Returned(<<>>)
    /\ UNCHANGED <<db, service, compileVars, modelVars>>

NextService ==
    \/ SearchPaginated
    \/ SearchUnlimited
    \/ QueryPaginated
    \/ QueryWithCount
    \/ Return

SpecService == InitService /\ [][NextService]_vars

----------------------------------------------------------------------------
(* The service over a collection of records as a state machine: a service *)
(* is constructed, then callers invoke its operations one at a time; any  *)
(* repository request of an operation may fail.                           *)

InitOps ==
    /\ db = <<>>
    /\ op = Idle
    /\ requests = <<>>
    /\ result = Returned(<<>>)
    /\ service = NoService
    /\ InitIdleCompile
    /\ InitIdleModel

\* cls(repository)
ConstructService ==
    /\ op = Idle
    /\ ~service.constructed
    /\ \E cls \in {AppVersionService, UndeclaredService},
          repository \in {"primary", "replica"} :
           /\ op' = [name |-> "__init__",
                     args |-> [cls |-> cls, repository |-> repository]]
           /\ requests' = <<>>
           /\ result' = IF service_init(cls, repository).raised # ""
                        THEN Raised(service_init(cls, repository).raised)
                        ELSE Returned(<<>>)
           /\ service' = service_init(cls, repository).service
    /\ UNCHANGED <<db, compileVars, modelVars>>

\* the operation runs to its return or to the request that fails; `seen`
\* is the collection it started on
Complete(name, args, outcome) ==
    \E fault \in 0..Len(outcome.requests), error \in RepositoryErrors :
        /\ fault = 0 => error = "ConnectionError"
        /\ LET out == Propagate(outcome, db, fault, error)
           IN /\ op' = [name |-> name, args |-> args,
                        fault |-> [at |-> fault, error |-> error],
                        seen |-> db]
              /\ requests' = out.requests
              /\ result' = out.result
              /\ db' = out.db
        /\ UNCHANGED <<service, compileVars, modelVars>>

Ready == op = Idle /\ service.constructed

Get ==
    /\ Ready
    /\ \E document_id \in RecordIds :
           Complete("get", [document_id |-> document_id],
                    get(service, db, document_id, clock))

\* the ids a record hydrated from data may get: the id of data, otherwise
\* a generated one, which no stored record has
IdsFor(data, docs) ==
    IF "id" \in DOMAIN data THEN {data["id"]} ELSE RecordIds \ StoredIds(docs)

Create ==
    /\ Ready
    /\ \E data \in DocumentData : \E fresh \in IdsFor(data, db) :
           Complete("create", [document_data |-> data, fresh |-> fresh],
                    create(service, db, data, clock, fresh))

UpdateRecord ==
    /\ Ready
    /\ \E data \in DocumentData : \E fresh \in IdsFor(data, db) :
           Complete("update", [document_data |-> data, fresh |-> fresh],
                    service_update(service, db, data, clock, fresh))

SetRecord ==
    /\ Ready
    /\ \E data \in DocumentData : \E fresh \in IdsFor(data, db) :
           Complete("set", [document_data |-> data, fresh |-> fresh],
                    service_set(service, db, data, clock, fresh))

UpdateMany ==
    /\ Ready
    /\ \E c \in RecordConditions \ {NoneArg} :
           Complete("_update_many", [and_conditions |-> c.items],
                    update_many(service, db, c.items, ("make" :> Text(2))))

PushArray ==
    /\ Ready
    /\ \E document_id \in RecordIds, value \in {Text(3)} :
           /\ \A i \in 1..Len(db) : Len(ArrayOf(db[i], "features")) < MaxArray
           /\ Complete("_push_array",
                       [document_id |-> document_id, value |-> value],
                       push_array(service, db, document_id, "features", value))

PushArrayMany ==
    /\ Ready
    /\ \E document_id \in RecordIds, value \in {Text(3)},
          avoid_duplication \in BOOLEAN :
           /\ \A i \in 1..Len(db) :
                  Len(ArrayOf(db[i], "features")) < MaxArray \/ avoid_duplication
           /\ Complete("_push_array_many",
                       [document_id |-> document_id, value |-> value,
                        avoid_duplication |-> avoid_duplication],
                       push_array_many(service, db, document_id, "features",
                                       <<value>>, ("make" :> Text(2)),
                                       avoid_duplication))

PullArray ==
    /\ Ready
    /\ \E document_id \in RecordIds, value \in {Text(3)} :
           Complete("_pull_array",
                    [document_id |-> document_id, value |-> value],
                    pull_array(service, db, document_id, "features", value,
                               <<>>))

Query ==
    /\ Ready
    /\ \E c \in RecordConditions, limit \in 0..1 :
           Complete("_query", [and_conditions |-> c, limit |-> limit],
                    Reading(query_all(db, c, NoneArg, NoneArg, NoneArg, limit),
                            db))

QueryOne ==
    /\ Ready
    /\ \E c \in RecordConditions :
           Complete("_query_one", [and_conditions |-> c],
                    Reading(query_one(db, c, NoneArg, NoneArg, NoneArg), db))

QueryUnlimited ==
    /\ Ready
    /\ \E c \in RecordConditions :
           Complete("_query_unlimited", [and_conditions |-> c],
                    Reading(query_unlimited(db, c, NoneArg, NoneArg, NoneArg),
                            db))

QueryUnlimitedWithCount ==
    /\ Ready
    /\ \E c \in RecordConditions :
           Complete("_query_unlimited_with_count", [and_conditions |-> c],
                    Reading(query_unlimited_with_count(db, c, NoneArg, NoneArg,
                                                       NoneArg), db))

QueryWithCountOfRecords ==
    /\ Ready
    /\ \E c \in RecordConditions, limit \in 0..1 :
           Complete("_query_with_count", [and_conditions |-> c, limit |-> limit],
                    Reading(query_with_count(db, c, NoneArg, NoneArg, NoneArg,
                                             limit), db))

QueryPaginatedOfRecords ==
    /\ Ready
    /\ \E c \in RecordConditions :
           Complete("_query_paginated", [and_conditions |-> c],
                    Reading(query_paginated(db, 1, 1, c, NoneArg, NoneArg,
                                            NoneArg), db))

SearchPaginatedOfRecords ==
    /\ Ready
    /\ \E c \in RecordCalls :
           Complete("_search_paginated", [call |-> c, page |-> 1, limit |-> 1],
                    Reading(search_paginated(db, c, 1, 1), db))

SearchUnlimitedOfRecords ==
    /\ Ready
    /\ \E c \in RecordCalls :
           Complete("_search_unlimited", [call |-> c],
                    Reading(search_unlimited(db, c), db))

NextOps ==
    \/ ConstructService
    \/ Get
    \/ Create
    \/ UpdateRecord
    \/ SetRecord
    \/ UpdateMany
    \/ PushArray
    \/ PushArrayMany
    \/ PullArray
    \/ Query
    \/ QueryOne
    \/ QueryUnlimited
    \/ QueryUnlimitedWithCount
    \/ QueryWithCountOfRecords
    \/ QueryPaginatedOfRecords
    \/ SearchPaginatedOfRecords
    \/ SearchUnlimitedOfRecords
    \/ Return

SpecOps == InitOps /\ [][NextOps]_vars

----------------------------------------------------------------------------
(* _search_paginated among other callers: the operation issues its        *)
(* requests one at a time, each answered on the collection as it is then, *)
(* while other callers insert and delete documents.  The return value is  *)
(* fixed by the answers, so the other callers are interleaved up to the   *)
(* last request of the operation.                                         *)

\* the searches of the caller: no filter, or one filter on make or model
ConcurrentCalls ==
    {MakeCall("vehicles", S, <<"make", "model", "price", "km">>, TRUE, NoneArg) :
         S \in {{}, {<<"equal", "make">>}, {<<"not_text", "model">>},
                {<<"autocomplete", "make">>}}}

InitConcurrent == InitService

\* the caller enters _search_paginated; plan is the requests it will issue,
\* disturbed whether another caller has changed the collection since
CallSearchPaginated ==
    /\ op = Idle
    /\ \E c \in ConcurrentCalls, page \in Pages, limit \in Limits :
           op' = [name |-> "_search_paginated",
                  args |-> [call |-> c, page |-> page, limit |-> limit],
                  plan |-> search_paginated(<<>>, c, page, limit).requests,
                  answers |-> <<>>, disturbed |-> FALSE, done |-> FALSE]
    /\ requests' = <<>>
    /\ result' = Returned(<<>>)
    /\ UNCHANGED <<db, service, compileVars, modelVars>>

\* the next request of the operation reaches the repository; after the last
\* one the operation has its return value
IssueRequest ==
    /\ op # Idle
    /\ ~op.done
    /\ LET request == op.plan[Len(requests) + 1]
           answers == Append(op.answers, AnswerOf(request, db))
           last == Len(requests) + 1 = Len(op.plan)
       IN /\ requests' = Append(requests, request)
          /\ op' = [op EXCEPT !.answers = answers, !.done = last]
          /\ result' = IF last
                       THEN search_paginated_return(op.args.call, answers)
                       ELSE result
    /\ UNCHANGED <<db, service, compileVars, modelVars>>

\* the operation in progress, marked as disturbed
Disturbed == IF op = Idle THEN op ELSE [op EXCEPT !.disturbed = TRUE]

\* another caller inserts a document
OtherInsert ==
    /\ IF op = Idle THEN TRUE ELSE ~op.done
    /\ Len(db) < MaxDocs
    /\ \E kind \in DocKinds :
           LET free == 1..MaxDocs \ {db[i]["_id"] : i \in 1..Len(db)}
               id == CHOOSE n \in free : \A k \in free : n <= k
           IN db' = Append(db, ("_id" :> id) @@ kind)
    /\ op' = Disturbed
    /\ UNCHANGED <<requests, result, service, compileVars, modelVars>>

\* another caller deletes a document
OtherDelete ==
    /\ IF op = Idle THEN TRUE ELSE ~op.done
    /\ \E i \in 1..Len(db) :
           db' = SubSeq(db, 1, i - 1) \o SubSeq(db, i + 1, Len(db))
    /\ op' = Disturbed
    /\ UNCHANGED <<requests, result, service, compileVars, modelVars>>

\* the caller takes the result of the finished operation
ReturnToCaller ==
    /\ op # Idle
    /\ op.done
    /\ op' = Idle
    /\ requests' = <<>>
    /\ result' = Returned(<<>>)
    /\ UNCHANGED <<db, service, compileVars, modelVars>>

NextConcurrent ==
    \/ CallSearchPaginated
    \/ IssueRequest
    \/ OtherInsert
    \/ OtherDelete
    \/ ReturnToCaller

SpecConcurrent == InitConcurrent /\ [][NextConcurrent]_vars

----------------------------------------------------------------------------
(* The model instance as a state machine: the clock ticks, a caller       *)
(* constructs the record and then updates it any number of times.         *)

ConstructInputs ==
    {a @@ b @@ c @@ d @@ e :
        a \in Maybe("km", {IntVal(5000), NumStr(7000), Text(1)}),
        b \in {("make" :> Text(1))},
        c \in Maybe("updated_at", {IntVal(0), IntVal(1), IntVal(MaxClock + 1)}),
        d \in Maybe("created_at", {IntVal(1), NumStr(2), IntVal(MaxClock + 1)}),
        e \in Maybe("version", {Text(200)})}

UpdateInputs ==
    {a @@ b @@ c @@ d :
        a \in Maybe("km", {IntVal(9000), NumStr(7000), Text(1)}),
        b \in Maybe("make", {Text(2)}),
        c \in Maybe("updated_at", {IntVal(MaxClock + 1)}),
        d \in Maybe("version_vehicle", {Text(3)})}

InitModel == InitIdleModel /\ InitIdleService /\ InitIdleCompile

\* time passes
Tick ==
    /\ clock < MaxClock
    /\ clock' = clock + 1
    /\ UNCHANGED <<record, mop, born, compileVars, serviceVars>>

\* the model is constructed from data at the current clock reading; a
\* construction that raises leaves no instance
Construct ==
    /\ mop = NoModelOp
    /\ \E data \in ConstructInputs :
           LET validated == model_validate(data, clock)
           IN /\ record' = IF validated.raised THEN NoRecord
                           ELSE validated.model
              /\ mop' = [name |-> "construct", data |-> data, now |-> clock,
                         before |-> NoRecord, raised |-> validated.raised]
              /\ born' = IF validated.raised THEN born
                         ELSE [updated_at |-> validated.model["updated_at"].v,
                               now |-> clock]
    /\ UNCHANGED <<clock, compileVars, serviceVars>>

\* record.update(data) at the current clock reading
Update ==
    /\ record # NoRecord
    /\ \E data \in UpdateInputs :
           LET out == update(record, data, clock)
           IN /\ record' = out.record
              /\ mop' = [name |-> "update", data |-> data, now |-> clock,
                         before |-> record, raised |-> out.raised]
    /\ UNCHANGED <<clock, born, compileVars, serviceVars>>

NextModel == Tick \/ Construct \/ Update

SpecModel == InitModel /\ [][NextModel]_vars

----------------------------------------------------------------------------
(* Properties of the filter compiler *)

Compound == search_step["compound"]

\* compound.get(key, [])
Bucket(key) == IF key \in DOMAIN Compound THEN Compound[key] ELSE <<>>

\* the number of leaves of operator `kind` in a bucket
CountKind(bucket, kind) ==
    Cardinality({i \in 1..Len(bucket) : kind \in DOMAIN bucket[i]})

\* the bucket holds exactly one leaf of operator `kind` for every item of arg
OneLeafPerField(bucket, arg, kind) ==
    /\ CountKind(bucket, kind) = Len(arg.items)
    /\ \A j \in 1..Len(arg.items) :
           Cardinality({i \in 1..Len(bucket) :
               /\ kind \in DOMAIN bucket[i]
               /\ bucket[i][kind]["path"] = arg.items[j].k}) = 1

\* every filter category of the arguments c is None or empty
FiltersFalsy(c) ==
    /\ ~Truthy(c.text_filters) /\ ~Truthy(c.autocomplete_filters)
    /\ ~Truthy(c.equal_filters) /\ ~Truthy(c.range_filters)
    /\ ~Truthy(c.not_text_filters) /\ ~Truthy(c.not_autocomplete_filters)
    /\ ~Truthy(c.not_equal_filters) /\ ~Truthy(c.not_null_filters)

AllFiltersFalsy == FiltersFalsy(call)

AnyPositive ==
    \/ Truthy(call.text_filters) \/ Truthy(call.equal_filters)
    \/ Truthy(call.range_filters) \/ Truthy(call.not_null_filters)

AnyNegated ==
    \/ Truthy(call.not_text_filters) \/ Truthy(call.not_autocomplete_filters)
    \/ Truthy(call.not_equal_filters)

\* C1: when every filter category is empty or absent, whatever the index
\* and the sort, the compound clause of the returned stage has no key.
C1_EmptyFiltersEmptyCompound ==
    (compiled /\ AllFiltersFalsy) => DOMAIN Compound = {}

\* C1 witness: a compiled call with every category given but empty and a
\* non-empty sort.
C1_Witness ==
    /\ compiled /\ AllFiltersFalsy /\ Truthy(call.sort)
    /\ call.text_filters.given /\ "sort" \in DOMAIN search_step

\* C2: filter is present iff a positive category is non-empty and holds
\* exactly one leaf per field of text, equal, range and not_null; mustNot is
\* present iff a negated category is non-empty and holds exactly one leaf per
\* field of the negated categories; a non-empty sort is the top-level sort
\* key and the compound clause never has a sort key.
C2_AdditiveUnion ==
    compiled =>
        /\ ("filter" \in DOMAIN Compound) <=> AnyPositive
        /\ ("mustNot" \in DOMAIN Compound) <=> AnyNegated
        /\ OneLeafPerField(Bucket("filter"), call.text_filters, "text")
        /\ OneLeafPerField(Bucket("filter"), call.equal_filters, "equals")
        /\ OneLeafPerField(Bucket("filter"), call.range_filters, "range")
        /\ OneLeafPerField(Bucket("filter"), call.not_null_filters, "wildcard")
        /\ Len(Bucket("filter")) =
               Len(call.text_filters.items) + Len(call.equal_filters.items)
               + Len(call.range_filters.items) + Len(call.not_null_filters.items)
        /\ OneLeafPerField(Bucket("mustNot"), call.not_text_filters, "text")
        /\ OneLeafPerField(Bucket("mustNot"), call.not_autocomplete_filters,
                           "autocomplete")
        /\ OneLeafPerField(Bucket("mustNot"), call.not_equal_filters, "equals")
        /\ Len(Bucket("mustNot")) =
               Len(call.not_text_filters.items)
               + Len(call.not_autocomplete_filters.items)
               + Len(call.not_equal_filters.items)
        /\ "sort" \notin DOMAIN Compound
        /\ ("sort" \in DOMAIN search_step) <=> Truthy(call.sort)
        /\ Truthy(call.sort) => search_step["sort"] = call.sort.items

\* C2 witness: equal={make}, range={price} and a sort compile to two filter
\* entries, a top-level sort and neither mustNot nor should.
C2_Witness ==
    /\ compiled
    /\ Len(call.equal_filters.items) = 1 /\ Len(call.range_filters.items) = 1
    /\ call.range_filters.items[1].k = "price"
    /\ Truthy(call.sort)
    /\ DOMAIN Compound = {"filter"}
    /\ Len(Compound["filter"]) = 2
    /\ CountKind(Compound["filter"], "equals") = 1
    /\ CountKind(Compound["filter"], "range") = 1
    /\ search_step["sort"] = <<[k |-> "price", v |-> 1]>>

\* C3: a non-empty autocomplete map gives a should bucket with exactly one
\* autocomplete leaf per field and minimumShouldMatch = 1, and no
\* autocomplete leaf in filter; otherwise neither key is present.
C3_AutocompleteShould ==
    compiled =>
        /\ Truthy(call.autocomplete_filters) =>
               /\ {"should", "minimumShouldMatch"} \subseteq DOMAIN Compound
               /\ Compound["minimumShouldMatch"] = 1
               /\ Len(Compound["should"]) = Len(call.autocomplete_filters.items)
               /\ OneLeafPerField(Compound["should"],
                                  call.autocomplete_filters, "autocomplete")
        /\ ~Truthy(call.autocomplete_filters) =>
               /\ "should" \notin DOMAIN Compound
               /\ "minimumShouldMatch" \notin DOMAIN Compound
        /\ CountKind(Bucket("filter"), "autocomplete") = 0

\* C3 witness: two autocomplete fields next to a positive filter.
C3_Witness ==
    /\ compiled
    /\ Len(call.autocomplete_filters.items) = 2
    /\ Truthy(call.text_filters)
    /\ Len(Compound["should"]) = 2
    /\ "filter" \in DOMAIN Compound

----------------------------------------------------------------------------
(* Properties of the query and search executor *)

OnSearchPath ==
    op.name = "_search_paginated" /\ ~FiltersFalsy(op.args.call)

OnFallbackPath ==
    op.name = "_search_paginated" /\ FiltersFalsy(op.args.call)

\* the positions of db that the compiled filters of c match
SearchHits(c) ==
    {i \in 1..Len(db) : CompoundMatches(db[i], base_search(c)["compound"])}

\* the positions of db that the conditions of a query operation match
QueryHits(and_conditions, or_conditions) ==
    {i \in 1..Len(db) :
        /\ \A j \in 1..Len(and_conditions.items) :
               CondHolds(db[i], and_conditions.items[j])
        /\ \/ or_conditions.items = <<>>
           \/ \E j \in 1..Len(or_conditions.items) :
                  CondHolds(db[i], or_conditions.items[j])}

\* C4: on the search path, for page >= 1 and limit > 0, the pipeline sent
\* windows the results with $skip = limit * (page - 1) followed by $limit =
\* limit; page 1 skips nothing, the window of a page ends where the window of
\* the next page starts, and the page returned is that window of the matches.
C4_SearchWindow ==
    OnSearchPath =>
        LET page == op.args.page
            limit == op.args.limit
            window == requests[2].pipeline[2]["$facet"].results
            matches == SearchMatchSet(db, requests[2].pipeline[1]["$search"])
        IN /\ Len(requests) = 2 /\ requests[2].kind = "aggregate"
           /\ window = <<("$skip" :> limit * (page - 1)), ("$limit" :> limit)>>
           /\ page = 1 => window[1]["$skip"] = 0
           /\ window[1]["$skip"] + window[2]["$limit"] = limit * ((page + 1) - 1)
           /\ result.raised = ""
           /\ Len(result.value[2]) <= limit
           /\ \A i \in 1..Len(result.value[2]) :
                  result.value[2][i] = matches[limit * (page - 1) + i]
           /\ Len(result.value[2]) < limit =>
                  Len(matches) <= limit * (page - 1) + Len(result.value[2])

\* C4 witness: the second page of a search with two matches and limit 1.
C4_Witness ==
    /\ OnSearchPath
    /\ op.args.page = 2 /\ op.args.limit = 1
    /\ Cardinality(SearchHits(op.args.call)) = 2
    /\ Len(result.value[2]) = 1
    /\ result.value[2][1]["_id"] = 2

\* C5: _search_paginated with no filters and no sort returns the pair that
\* _query_paginated(page, limit) returns with no conditions on the same
\* collection, and it issues query, count and paginate only: no aggregation.
C5_FallbackEqualsQueryPaginated ==
    (OnFallbackPath /\ ~Truthy(op.args.call.sort)) =>
        /\ result = query_paginated(db, op.args.page, op.args.limit, NoneArg,
                                    NoneArg, NoneArg, NoneArg).result
        /\ Len(requests) = 3
        /\ requests[1].kind = "query"
        /\ requests[2].kind = "count"
        /\ requests[3].kind = "paginate"
        /\ \A i \in 1..Len(requests) :
               requests[i].kind \notin {"aggregate", "get_collection"}

\* C5 witness: page 2, limit 1 of an unfiltered search over two documents.
C5_Witness ==
    /\ OnFallbackPath /\ ~Truthy(op.args.call.sort)
    /\ op.args.page = 2 /\ op.args.limit = 1
    /\ Len(db) = 2
    /\ result.value[1] = 2
    /\ Len(result.value[2]) = 1
    /\ result.value[2][1]["_id"] = 2

\* C6: no aggregation request carries a $search stage whose compound clause
\* is empty.
C6_NoEmptySearchSent ==
    \A i \in 1..Len(requests) :
        requests[i].kind = "aggregate" =>
            \A j \in 1..Len(requests[i].pipeline) :
                "$search" \in DOMAIN requests[i].pipeline[j] =>
                    DOMAIN requests[i].pipeline[j]["$search"]["compound"] # {}

\* C7: with the collection unchanged during the call, the total_count
\* returned by _query_with_count, _query_paginated and _search_paginated is
\* the number of documents that match the conditions or filters, whatever
\* the page and the limit.
C7_CountIsFullMatchSet ==
    /\ op.name \in {"_query_with_count", "_query_paginated"} =>
           /\ result.raised = ""
           /\ result.value[1] =
                  Cardinality(QueryHits(op.args.and_conditions,
                                        op.args.or_conditions))
    /\ OnSearchPath =>
           /\ result.raised = ""
           /\ result.value[1] = Cardinality(SearchHits(op.args.call))
    /\ OnFallbackPath =>
           /\ result.raised = ""
           /\ result.value[1] = Len(db)

\* C7 witness: a search for a page beyond the last match returns no
\* records and the full count.
C7_Witness ==
    /\ OnSearchPath
    /\ op.args.page = 3 /\ op.args.limit = 1
    /\ result.value[2] = <<>>
    /\ result.value[1] = 2

----------------------------------------------------------------------------
(* Properties of UpdatableModel.update *)

\* the last operation was an update() that returned
Updated == mop.name = "update" /\ ~mop.raised

\* the value a valid delta value takes once validated: the str of digits
\* given for the int field km is stored as the int
ValidatedValue(f, val) ==
    IF f = "km" /\ val.t = "numstr" THEN [t |-> "int", v |-> val.v] ELSE val

\* C8: update(delta) leaves every field other than updated_at that is no key
\* of delta unchanged, gives every field that is a key of delta its validated
\* value, and sets updated_at to the current time, also when delta carries
\* an updated_at; with the empty delta only updated_at changes.
C8_UpdateFrame ==
    Updated =>
        /\ DOMAIN record = ModelFields
        /\ \A f \in ModelFields \ {"updated_at"} :
               IF f \in DOMAIN mop.data
               THEN record[f] = ValidatedValue(f, mop.data[f])
               ELSE record[f] = mop.before[f]
        /\ record["updated_at"] = [t |-> "int", v |-> mop.now]

\* C8 witness: a delta with km as a str of digits and an updated_at of its
\* own, without make, applied at a clock reading other than that updated_at.
C8_Witness ==
    /\ Updated
    /\ DOMAIN mop.data = {"km", "updated_at"}
    /\ mop.data["km"].t = "numstr"
    /\ mop.data["updated_at"].v # mop.now
    /\ mop.before["km"] # record["km"]
    /\ record["updated_at"].v = mop.now

\* C9 as claimed: after any update() the record's updated_at is strictly
\* greater than before the call.
C9_StrictlyGreater ==
    Updated => record["updated_at"].v > mop.before["updated_at"].v

\* C9 as amended: after any update() the record's updated_at is the clock
\* reading of the call, so it is strictly greater than before exactly when
\* that reading is later than the previous updated_at.
C9_StampIsClockReading ==
    Updated =>
        /\ record["updated_at"].v = mop.now
        /\ (record["updated_at"].v > mop.before["updated_at"].v)
               <=> (mop.now > mop.before["updated_at"].v)

\* C9 witness: an update in the millisecond of the previous stamp, with a
\* delta that has no updated_at, leaves updated_at equal.
C9_Witness ==
    /\ Updated
    /\ "updated_at" \notin DOMAIN mop.data
    /\ mop.before["updated_at"].v = mop.now
    /\ record["updated_at"].v = mop.before["updated_at"].v

\* C10 as claimed: under the non-decreasing clock no update() lowers
\* updated_at.
C10_NeverDecreases ==
    Updated => record["updated_at"].v >= mop.before["updated_at"].v

\* the record was constructed with an updated_at not later than the clock
BornInPast == record # NoRecord /\ born.updated_at <= born.now

\* C10 as amended: for a record constructed with an updated_at not later
\* than the clock reading, updated_at never exceeds the clock and no
\* update() lowers it.
C10_MonotonicFromPastStamp ==
    BornInPast =>
        /\ record["updated_at"].v <= clock
        /\ Updated => record["updated_at"].v >= mop.before["updated_at"].v

\* C10 witness: such a record, updated after the clock has advanced.
C10_Witness ==
    /\ BornInPast
    /\ Updated
    /\ mop.before["updated_at"].v > born.updated_at
    /\ record["updated_at"].v > mop.before["updated_at"].v

----------------------------------------------------------------------------
(* Properties of the construction of a record *)

\* the last operation was a construction that returned a record
Constructed == mop.name = "construct" /\ ~mop.raised

\* C11: a constructed record's updated_at is the supplied updated_at when one
\* is given, otherwise the supplied created_at when one is given, otherwise
\* the current time in milliseconds; it is a positive int in every case.
C11_UpdatedAtOnConstruction ==
    Constructed =>
        /\ record["updated_at"].v =
               (IF "updated_at" \in DOMAIN mop.data
                THEN mop.data["updated_at"].v
                ELSE IF "created_at" \in DOMAIN mop.data
                THEN mop.data["created_at"].v
                ELSE mop.now)
        /\ record["updated_at"].t = "int"
        /\ record["updated_at"].v > 0

\* C11 witness: a record constructed from data with a created_at other than
\* the clock reading and no updated_at.
C11_Witness ==
    /\ Constructed
    /\ "updated_at" \notin DOMAIN mop.data
    /\ "created_at" \in DOMAIN mop.data
    /\ mop.data["created_at"].v # mop.now
    /\ record["updated_at"].v = mop.data["created_at"].v

----------------------------------------------------------------------------
(* Properties of a failed update *)

\* C17: when the merged values fail validation, update() raises and the
\* record is as it was before the call in every field, updated_at included.
C17_FailedUpdateLeavesRecord ==
    (mop.name = "update" /\ mop.raised) => record = mop.before

\* C17 witness: a delta with a valid make and a km that is no int, applied
\* at a clock reading other than the record's updated_at, raises.
C17_Witness ==
    /\ mop.name = "update" /\ mop.raised
    /\ {"km", "make"} \subseteq DOMAIN mop.data
    /\ mop.data["make"] # mop.before["make"]
    /\ mop.before["updated_at"].v # mop.now
    /\ record = mop.before

----------------------------------------------------------------------------
(* Properties of the record operations *)

\* a service operation has run
Invoked == op.name \notin {"idle", "__init__"}

\* the operation returned
ReturnedNormally == Invoked /\ result.raised = ""

\* C12: create(data) with data that fails validation raises the validation
\* error, has issued no repository request and leaves the collection as it
\* was; with valid data it has issued exactly one request, a create with
\* the service's collection name and the serialized hydrated record, and
\* when that request succeeds the stored record is that one and the
\* returned record is the hydrated record, with version "1.0.0" and a
\* positive updated_at.
C12_CreateHydratesFirst ==
    op.name = "create" =>
        LET data == op.args.document_data
            hydrated == instantiate_entity_model(data, clock, op.args.fresh)
        IN IF hydrated.raised
           THEN /\ result = Raised("ValidationError")
                /\ requests = <<>>
                /\ db = op.seen
           ELSE /\ Len(requests) = 1
                /\ requests[1].kind = "create"
                /\ requests[1].collection = service.entity_model_collection
                /\ requests[1].record = hydrated.model
                /\ \A f \in DOMAIN data : requests[1].record[f] = data[f]
                /\ result.raised = "" =>
                       /\ db = Append(op.seen, requests[1].record)
                       /\ Len(result.value) = 1
                       /\ result.value[1].model = requests[1].record
                       /\ result.value[1].model["version"] = Version100
                       /\ result.value[1].model["updated_at"].t = "int"
                       /\ result.value[1].model["updated_at"].v > 0

\* C12 witness: create with a km that is no int on a collection that holds
\* a record.
C12_Witness ==
    /\ op.name = "create"
    /\ op.args.document_data["km"].t = "text"
    /\ op.seen # <<>>
    /\ result.raised = "ValidationError"
    /\ requests = <<>>

\* C13: when its request does not fail, get(id) returns None when no record
\* has the id and otherwise the record hydrated from the stored one;
\* update(data) and set(data) return None exactly when no record has the id
\* of the hydrated record (the repository matched zero) and the hydrated
\* record otherwise; none of them raises, and a miss leaves the collection
\* as it was.
C13_MissIsNone ==
    /\ (op.name = "get" /\ op.fault.at = 0) =>
           LET id == op.args.document_id
           IN IF id \notin StoredIds(op.seen)
              THEN result = Returned(<<>>) /\ db = op.seen
              ELSE /\ result.raised = ""
                   /\ Len(result.value) = 1
                   /\ \A f \in ModelFields \cup {"id"} :
                          result.value[1].model[f] =
                              op.seen[IndexOfId(op.seen, id)][f]
    /\ (op.name \in {"update", "set"} /\ requests # <<>> /\ op.fault.at = 0) =>
           LET miss == requests[1].id \notin StoredIds(op.seen)
           IN /\ result.raised = ""
              /\ (result.value = <<>>) <=> miss
              /\ miss => db = op.seen
              /\ ~miss => /\ Len(result.value) = 1
                          /\ result.value[1].model = requests[1].record
                          /\ result.value[1].model["id"] = requests[1].id

\* C13 witness: an update of a record that is not stored, on a collection
\* that holds another record.
C13_Witness ==
    /\ op.name = "update"
    /\ requests # <<>>
    /\ op.fault.at = 0
    /\ op.seen # <<>>
    /\ requests[1].id \notin StoredIds(op.seen)
    /\ result = Returned(<<>>)
    /\ db = op.seen

\* C14: constructing a service whose class declares no entity model raises
\* TypeError, leaves no service and issues no repository request; a
\* construction that succeeds gives the service the collection name of the
\* entity model and the repository handle it was given; no operation is
\* issued before a service is constructed, and no step changes the
\* collection name or the repository handle of a constructed service.
C14_ConstructionFailsFast ==
    /\ [](op.name = "__init__" =>
              IF op.args.cls.entity_model = <<>>
              THEN /\ result = Raised("TypeError")
                   /\ ~service.constructed
                   /\ requests = <<>>
              ELSE /\ result.raised = ""
                   /\ service.constructed
                   /\ service.entity_model_collection =
                          op.args.cls.entity_model[1].collection_name
                   /\ service.repository = op.args.repository)
    /\ [](~service.constructed => (requests = <<>> /\ db = <<>>))
    /\ [][service.constructed => service' = service]_vars

\* C14 witness: the construction of a service without entity model has
\* raised.
C14_Witness ==
    /\ op.name = "__init__"
    /\ op.args.cls.entity_model = <<>>
    /\ result = Raised("TypeError")
    /\ ~service.constructed

\* C15: when request number n of an operation fails, the operation raises
\* that error, the failed request is the last of the n requests it has
\* issued, and no earlier request of the operation is that request; an
\* error the repository raises on its own is raised after the request
\* that caused it.
C15_FailureStopsOperation ==
    Invoked =>
        /\ op.fault.at > 0 =>
               /\ result = Raised(op.fault.error)
               /\ Len(requests) = op.fault.at
               /\ \A i \in 1..(Len(requests) - 1) :
                      requests[i] # requests[Len(requests)]
        /\ result.raised = "RepositoryError" =>
               /\ requests # <<>>
               /\ requests[Len(requests)].kind \in {"create", "aggregate"}

\* C15 witness: the count of _query_paginated has failed with a timeout;
\* the page was not asked for.
C15_Witness ==
    /\ op.name = "_query_paginated"
    /\ op.fault.at = 2
    /\ op.fault.error = "TimeoutError"
    /\ result = Raised("TimeoutError")
    /\ requests[Len(requests)].kind = "count"

\* the requests that ask the repository for data or write to it; query()
\* and get_collection() only name the collection
DataRequests ==
    SelectSeq(requests, LAMBDA r : r.kind \notin {"query", "get_collection"})

DataKinds == [i \in 1..Len(DataRequests) |-> DataRequests[i].kind]

OneRequestOperation ==
    \/ op.name \in {"get", "create", "update", "set", "_query", "_query_one",
                    "_query_unlimited", "_search_unlimited"}
    \/ OnSearchPath

CountAndFetchOperation ==
    \/ op.name \in {"_query_with_count", "_query_unlimited_with_count",
                    "_query_paginated"}
    \/ OnFallbackPath

\* a count followed by a fetch
CountThenFetch ==
    /\ Len(DataKinds) = 2
    /\ DataKinds[1] = "count"
    /\ DataKinds[2] \in {"get_all", "get_all_without_limit", "paginate"}

----------------------------------------------------------------------------
(* Properties of _search_paginated among other callers *)

\* C18: on the search path the returned count and page come from the one
\* aggregation request: the count is the number of documents that matched
\* the filters in the collection as it was when that request arrived, every
\* returned document is one of them, and the page holds at most limit
\* documents and at most count, whatever other callers inserted or deleted
\* while the operation ran.
C18_SearchPathSingleState ==
    (OnSearchPath /\ op.done /\ result.raised = "") =>
        LET count == result.value[1]
            documents == result.value[2]
            compound == base_search(op.args.call)["compound"]
            hits == SelectSeq(db,
                              LAMBDA d : CompoundMatches(d, compound))
        IN /\ count = Len(hits)
           /\ \A i \in 1..Len(documents) :
                  \E j \in 1..Len(hits) : documents[i] = hits[j]
           /\ Len(documents) <= op.args.limit
           /\ Len(documents) <= count

\* C18 witness: a search-path call returned a count of two and a page of
\* one document after other callers changed the collection between its
\* requests.
C18_Witness ==
    /\ OnSearchPath /\ op.done /\ result.raised = ""
    /\ op.disturbed
    /\ result.value[1] = 2
    /\ Len(result.value[2]) = 1

====
